---- MODULE Spec2Model ----
(***************************************************************************)
(* The translation driver of enjarify-go (main.go): main reads the DEX      *)
(* inputs, opens the output file, translate turns every class into a class  *)
(* file or a recorded failure, writeToJar packs the successes, and main     *)
(* prints the diagnostics and the summary.                                   *)
(***************************************************************************)
EXTENDS Integers, Sequences, FiniteSets, TLC

(* ---------------------------- bounds ----------------------------------- *)

\* largest number of classes in all the DEX inputs of one run
MaxClasses == 3
\* largest number of classes*.dex members of the input archive
MaxDex == 2

(* ------------------------- program constants --------------------------- *)

\* a progress line is printed every ProgressEvery processed classes
ProgressEvery == 1000

(* ------------------------------ names ---------------------------------- *)

\* raw (MUTF-8) class names as they stand in a DEX file; <<193, 161>> is the
\* two-byte encoding of code point 97, which Decode accepts
RawNames == { <<97>>, <<193, 161>>, <<98>>, <<99>> }

\* ".class"
DotClass == <<46, 99, 108, 97, 115, 115>>

RECURSIVE Decode(_)
\* MUTF-8 decoding of a raw name into its code points
Decode(b) ==
    IF b = <<>> THEN <<>>
    ELSE IF b[1] < 128 THEN <<b[1]>> \o Decode(Tail(b))
    ELSE IF b[1] \div 32 = 6 /\ Len(b) >= 2
         THEN <<(b[1] % 32) * 64 + (b[2] % 64)>> \o Decode(SubSeq(b, 3, Len(b)))
    ELSE IF b[1] \div 16 = 14 /\ Len(b) >= 3
         THEN <<(b[1] % 16) * 4096 + (b[2] % 64) * 64 + (b[3] % 64)>>
              \o Decode(SubSeq(b, 4, Len(b)))
    ELSE <<b[1]>> \o Decode(Tail(b))

\* unicode_name := Decode(cls.Name) + ".class"
UnicodeName(cls) == Decode(cls.Name) \o DotClass

(* --------------------------- collaborators ----------------------------- *)

\* a class of a DEX file: its raw name, and whether its body translates
DexClass == [Name : RawNames, valid : BOOLEAN]

\* the nil error
Nil == <<>>

\* dex.Parse: the DEX data as its list of classes
Parse(data) == [Classes |-> data]

\* jvm.ToClassFile: the class file of a class, or the reason it has none;
\* a function of the class (opts, set by -fast, changes only the shape of the
\* class data and is left out)
ToClassFile(cls) ==
    IF cls.valid
    THEN [class_data |-> <<202, 254>> \o cls.Name, err |-> Nil]
    ELSE [class_data |-> <<>>,                     err |-> <<33>> \o cls.Name]

(* ------------------------------- state --------------------------------- *)

VARIABLES
    pc,         \* where main stands
    pforce,     \* the -f flag
    inputKind,  \* "none": no input file name, "apk", or "dex"
    file,       \* the output file on disk
    dexs,       \* the DEX data read from the input
    di, ci,     \* translate: current dex (1-based) and next class in it
    classes,    \* translate: unicode_name -> class data
    errors,     \* translate: unicode_name -> error
    ordkeys,    \* translate: names of classes, in insertion order
    calls,      \* the classes jvm.ToClassFile was called with, in order
    wi,         \* writeToJar: next index into ordkeys
    printed,    \* main: names of errors whose line has been printed
    out         \* the lines printed on standard output, in order

vars == <<pc, pforce, inputKind, file, dexs, di, ci, classes, errors, ordkeys,
          calls, wi, printed, out>>

\* a printed line
Line(kind, name, reason, n, m) ==
    [kind |-> kind, name |-> name, reason |-> reason, n |-> n, m |-> m]

\* the empty map
EmptyMap == [x \in {} |-> <<>>]

\* m[k] = v, adding k to the domain when it is new
Put(m, k, v) == [x \in DOMAIN m \cup {k} |-> IF x = k THEN v ELSE m[x]]

\* len(m) of a map
MapLen(m) == Cardinality(DOMAIN m)

\* the output file: absent, or present with its entries; old marks content
\* that was there before the run
AbsentFile == [exists |-> FALSE, old |-> FALSE, entries |-> <<>>]
OldFile    == [exists |-> TRUE,  old |-> TRUE,  entries |-> <<>>]

Init ==
    /\ pc = "start"
    /\ pforce \in BOOLEAN
    /\ inputKind \in {"none", "apk", "dex"}
    /\ file \in {AbsentFile, OldFile}
    /\ dexs = <<>>
    /\ di = 0
    /\ ci = 1
    /\ classes = EmptyMap
    /\ errors = EmptyMap
    /\ ordkeys = <<>>
    /\ calls = <<>>
    /\ wi = 1
    /\ printed = {}
    /\ out = <<>>

(* ------------------------------ main: input ---------------------------- *)

RECURSIVE SumTo(_, _)
\* lens[1] + ... + lens[i]
SumTo(lens, i) == IF i = 0 THEN 0 ELSE SumTo(lens, i - 1) + lens[i]

\* the DEX inputs made of the classes flat, cut into pieces of lengths lens
Cut(flat, lens) ==
    [i \in DOMAIN lens |->
        SubSeq(flat, SumTo(lens, i - 1) + 1, SumTo(lens, i))]

\* if inputfile == "" { print; return }
NoInput ==
    /\ pc = "start"
    /\ inputKind = "none"
    /\ out' = Append(out, Line("noinput", <<>>, <<>>, 0, 0))
    /\ pc' = "returned"
    /\ UNCHANGED <<pforce, inputKind, file, dexs, di, ci, classes, errors,
                   ordkeys, calls, wi, printed>>

\* dexs = readDexes(inputfile) for an .apk, else []string{Read(inputfile)}:
\* any number of DEX inputs up to MaxDex for an .apk and one otherwise, with
\* at most MaxClasses classes in all; every input holds a class (one without
\* classes would add a NextDex step and nothing else)
ReadInput ==
    /\ pc = "start"
    /\ inputKind # "none"
    /\ \E n \in 0..MaxClasses :
         \E flat \in [1..n -> DexClass] :
           \E k \in (IF inputKind = "apk" THEN 0..MaxDex ELSE {1}) :
             \E lens \in [1..k -> 1..n] :
               /\ SumTo(lens, k) = n
               /\ dexs' = Cut(flat, lens)
    /\ pc' = "open"
    /\ UNCHANGED <<pforce, inputKind, file, di, ci, classes, errors, ordkeys,
                   calls, wi, printed, out>>

\* check(err) panics when the input cannot be read
ReadPanic ==
    /\ pc = "start"
    /\ inputKind # "none"
    /\ pc' = "panicked"
    /\ UNCHANGED <<pforce, inputKind, file, dexs, di, ci, classes, errors,
                   ordkeys, calls, wi, printed, out>>

(* ------------------------------ main: output --------------------------- *)

\* OpenErr with O_EXCL never set
OpenErr_NoExcl(f, force, ioerr) == ioerr

\* os.OpenFile(outname, O_RDWR|O_CREATE [|O_EXCL], 0666): O_EXCL fails on an
\* existing file; any other failure of the call is ioerr
OpenErr(f, force, ioerr) == (f.exists /\ ~force) \/ ioerr

\* the file after a successful os.OpenFile: created empty when it was absent,
\* left as it is otherwise (no O_TRUNC)
Opened(f) == IF f.exists THEN f ELSE [exists |-> TRUE, old |-> FALSE, entries |-> <<>>]

\* outfile, err := os.OpenFile(...); if err != nil { print; return };
\* then translate is entered with empty classes, errors and ordkeys
OpenOutput ==
    /\ pc = "open"
    /\ \E ioerr \in BOOLEAN :
         IF OpenErr(file, pforce, ioerr)
         THEN /\ out' = Append(out, Line("exists", <<>>, <<>>, 0, 0))
              /\ pc' = "returned"
              /\ UNCHANGED <<file, classes, errors, ordkeys, di, ci>>
         ELSE /\ file' = Opened(file)
              /\ pc' = "translate"
              /\ classes' = EmptyMap
              /\ errors' = EmptyMap
              /\ ordkeys' = <<>>
              /\ di' = 0
              /\ ci' = 1
              /\ UNCHANGED out
    /\ UNCHANGED <<pforce, inputKind, dexs, calls, wi, printed>>

(* ------------------------------ translate ------------------------------ *)

\* the classes of the dex the loop stands in
CurClasses == IF di = 0 THEN <<>> ELSE Parse(dexs[di]).Classes

\* the inner loop has a class left
HasClass == pc = "translate" /\ ci <= Len(CurClasses)

\* the class the inner loop is about to process
Cls == CurClasses[ci]

\* for _, data := range dexs { dex := dex.Parse(data) ...
NextDex ==
    /\ pc = "translate"
    /\ ~HasClass
    /\ di < Len(dexs)
    /\ di' = di + 1
    /\ ci' = 1
    /\ UNCHANGED <<pc, pforce, inputKind, file, dexs, classes, errors, ordkeys,
                   calls, wi, printed, out>>

\* IsDuplicate looking in classes alone: ok2 forgotten
IsDuplicate_ClassesOnly(unicode_name) == unicode_name \in DOMAIN classes

\* ok1 || ok2
IsDuplicate(unicode_name) ==
    unicode_name \in DOMAIN classes \/ unicode_name \in DOMAIN errors

\* the progress line, when len(classes)+len(errors) is a multiple of
\* ProgressEvery
Progress(o, cs, es) ==
    IF (MapLen(cs) + MapLen(es)) % ProgressEvery = 0
    THEN Append(o, Line("processed", <<>>, <<>>, MapLen(cs) + MapLen(es), 0))
    ELSE o

\* DropDuplicate letting the later class take the place of the recorded one
DropDuplicate_Overwrite ==
    /\ HasClass
    /\ IsDuplicate(UnicodeName(Cls))
    /\ out' = Append(out, Line("Warning", UnicodeName(Cls), <<>>, 0, 0))
    /\ classes' = IF UnicodeName(Cls) \in DOMAIN classes /\ ToClassFile(Cls).err = Nil
                  THEN Put(classes, UnicodeName(Cls), ToClassFile(Cls).class_data)
                  ELSE classes
    /\ ci' = ci + 1
    /\ UNCHANGED <<pc, pforce, inputKind, file, dexs, di, errors, ordkeys,
                   calls, wi, printed>>

\* if ok1 || ok2 { print warning; continue }
DropDuplicate ==
    /\ HasClass
    /\ IsDuplicate(UnicodeName(Cls))
    /\ out' = Append(out, Line("Warning", UnicodeName(Cls), <<>>, 0, 0))
    /\ ci' = ci + 1
    /\ UNCHANGED <<pc, pforce, inputKind, file, dexs, di, classes, errors,
                   ordkeys, calls, wi, printed>>

\* TranslateOk keyed by the raw name: Decode forgotten when storing
TranslateOk_RawKey ==
    /\ HasClass
    /\ ~IsDuplicate(UnicodeName(Cls))
    /\ ToClassFile(Cls).err = Nil
    /\ calls' = Append(calls, Cls)
    /\ classes' = Put(classes, Cls.Name \o DotClass, ToClassFile(Cls).class_data)
    /\ ordkeys' = Append(ordkeys, Cls.Name \o DotClass)
    /\ out' = Progress(out, classes', errors)
    /\ ci' = ci + 1
    /\ UNCHANGED <<pc, pforce, inputKind, file, dexs, di, errors, wi, printed>>

\* class_data, err := jvm.ToClassFile(cls, opts); err == nil
TranslateOk ==
    /\ HasClass
    /\ ~IsDuplicate(UnicodeName(Cls))
    /\ ToClassFile(Cls).err = Nil
    /\ calls' = Append(calls, Cls)
    /\ classes' = Put(classes, UnicodeName(Cls), ToClassFile(Cls).class_data)
    /\ ordkeys' = Append(ordkeys, UnicodeName(Cls))
    /\ out' = Progress(out, classes', errors)
    /\ ci' = ci + 1
    /\ UNCHANGED <<pc, pforce, inputKind, file, dexs, di, errors, wi, printed>>

\* TranslateErr storing the failure in classes, not in errors
TranslateErr_AsClass ==
    /\ HasClass
    /\ ~IsDuplicate(UnicodeName(Cls))
    /\ ToClassFile(Cls).err # Nil
    /\ calls' = Append(calls, Cls)
    /\ classes' = Put(classes, UnicodeName(Cls), ToClassFile(Cls).class_data)
    /\ out' = Progress(out, classes', errors)
    /\ ci' = ci + 1
    /\ UNCHANGED <<pc, pforce, inputKind, file, dexs, di, errors, ordkeys, wi,
                   printed>>

\* TranslateErr returning from translate at the first failure
TranslateErr_Abort ==
    /\ HasClass
    /\ ~IsDuplicate(UnicodeName(Cls))
    /\ ToClassFile(Cls).err # Nil
    /\ calls' = Append(calls, Cls)
    /\ errors' = Put(errors, UnicodeName(Cls), ToClassFile(Cls).err)
    /\ out' = Progress(out, classes, errors')
    /\ ci' = ci + 1
    /\ pc' = "write"
    /\ UNCHANGED <<pforce, inputKind, file, dexs, di, classes, ordkeys, wi,
                   printed>>

\* TranslateErr with the append to ordkeys outside the success branch
TranslateErr_Ordkeys ==
    /\ HasClass
    /\ ~IsDuplicate(UnicodeName(Cls))
    /\ ToClassFile(Cls).err # Nil
    /\ calls' = Append(calls, Cls)
    /\ errors' = Put(errors, UnicodeName(Cls), ToClassFile(Cls).err)
    /\ ordkeys' = Append(ordkeys, UnicodeName(Cls))
    /\ out' = Progress(out, classes, errors')
    /\ ci' = ci + 1
    /\ UNCHANGED <<pc, pforce, inputKind, file, dexs, di, classes, wi, printed>>

\* class_data, err := jvm.ToClassFile(cls, opts); err != nil
TranslateErr ==
    /\ HasClass
    /\ ~IsDuplicate(UnicodeName(Cls))
    /\ ToClassFile(Cls).err # Nil
    /\ calls' = Append(calls, Cls)
    /\ errors' = Put(errors, UnicodeName(Cls), ToClassFile(Cls).err)
    /\ out' = Progress(out, classes, errors')
    /\ ci' = ci + 1
    /\ UNCHANGED <<pc, pforce, inputKind, file, dexs, di, classes, ordkeys,
                   wi, printed>>

\* TranslateReturn with main skipping writeToJar when a class failed
TranslateReturn_NoJarOnErrors ==
    /\ pc = "translate"
    /\ ~HasClass
    /\ di >= Len(dexs)
    /\ pc' = IF errors # EmptyMap THEN "report" ELSE "write"
    /\ UNCHANGED <<pforce, inputKind, file, dexs, di, ci, classes, errors,
                   ordkeys, calls, wi, printed, out>>

\* return classes, ordkeys, errors
TranslateReturn ==
    /\ pc = "translate"
    /\ ~HasClass
    /\ di >= Len(dexs)
    /\ pc' = "write"
    /\ UNCHANGED <<pforce, inputKind, file, dexs, di, ci, classes, errors,
                   ordkeys, calls, wi, printed, out>>

(* ------------------------------ writeToJar ----------------------------- *)

\* file, err := os.Create(fname); check(err): the file is truncated, or the
\* call fails and check panics
CreateJar ==
    /\ pc = "write"
    /\ \E ioerr \in BOOLEAN :
         IF ioerr
         THEN /\ pc' = "panicked"
              /\ UNCHANGED <<file, wi>>
         ELSE /\ file' = [exists |-> TRUE, old |-> FALSE, entries |-> <<>>]
              /\ wi' = 1
              /\ pc' = "jar"
    /\ UNCHANGED <<pforce, inputKind, dexs, di, ci, classes, errors, ordkeys,
                   calls, printed, out>>

\* one entry of the archive
Entry(unicode_name, data) == [name |-> unicode_name, data |-> data]

\* WriteEntry walking ordkeys from its end
WriteEntry_Reversed ==
    /\ pc = "jar"
    /\ wi <= Len(ordkeys)
    /\ \E ioerr \in BOOLEAN :
         IF ioerr
         THEN /\ pc' = "panicked"
              /\ UNCHANGED <<file, wi>>
         ELSE /\ file' = [file EXCEPT !.entries =
                            Append(@, Entry(ordkeys[Len(ordkeys) + 1 - wi],
                                            classes[ordkeys[Len(ordkeys) + 1 - wi]]))]
              /\ wi' = wi + 1
              /\ UNCHANGED pc
    /\ UNCHANGED <<pforce, inputKind, dexs, di, ci, classes, errors, ordkeys,
                   calls, printed, out>>

\* for _, unicode_name := range ordkeys { w.Create; f.Write }, check(err)
\* panicking when the archive cannot be written
WriteEntry ==
    /\ pc = "jar"
    /\ wi <= Len(ordkeys)
    /\ \E ioerr \in BOOLEAN :
         IF ioerr
         THEN /\ pc' = "panicked"
              /\ UNCHANGED <<file, wi>>
         ELSE /\ file' = [file EXCEPT !.entries =
                            Append(@, Entry(ordkeys[wi], classes[ordkeys[wi]]))]
              /\ wi' = wi + 1
              /\ UNCHANGED pc
    /\ UNCHANGED <<pforce, inputKind, dexs, di, ci, classes, errors, ordkeys,
                   calls, printed, out>>

\* writeToJar returns; outfile.Close(); "Output written to ..."
JarWritten ==
    /\ pc = "jar"
    /\ wi > Len(ordkeys)
    /\ out' = Append(out, Line("written", <<>>, <<>>, 0, 0))
    /\ printed' = {}
    /\ pc' = "report"
    /\ UNCHANGED <<pforce, inputKind, file, dexs, di, ci, classes, errors,
                   ordkeys, calls, wi>>

(* ------------------------------ main: report --------------------------- *)

\* for name, error := range errors { print }: the map is ranged over in an
\* unspecified order
PrintError ==
    /\ pc = "report"
    /\ \E name \in DOMAIN errors \ printed :
         /\ out' = Append(out, Line("error", name, errors[name], 0, 0))
         /\ printed' = printed \cup {name}
    /\ UNCHANGED <<pc, pforce, inputKind, file, dexs, di, ci, classes, errors,
                   ordkeys, calls, wi>>

\* "%d classes translated successfully, %d classes had errors"
PrintSummary ==
    /\ pc = "report"
    /\ printed = DOMAIN errors
    /\ out' = Append(out, Line("summary", <<>>, <<>>, MapLen(classes), MapLen(errors)))
    /\ pc' = "done"
    /\ UNCHANGED <<pforce, inputKind, file, dexs, di, ci, classes, errors,
                   ordkeys, calls, wi, printed>>

Next ==
    \/ NoInput
    \/ ReadInput
    \/ ReadPanic
    \/ OpenOutput
    \/ NextDex
    \/ DropDuplicate
    \/ TranslateOk
    \/ TranslateErr
    \/ TranslateReturn
    \/ CreateJar
    \/ WriteEntry
    \/ JarWritten
    \/ PrintError
    \/ PrintSummary

Spec == Init /\ [][Next]_vars

(* ----------------------- quantities the properties use ----------------- *)

RECURSIVE Flat(_, _)
\* the classes of the first i DEX inputs, in input order
Flat(ds, i) == IF i = 0 THEN <<>> ELSE Flat(ds, i - 1) \o Parse(ds[i]).Classes

\* every input class, in input order
Input == Flat(dexs, Len(dexs))

\* the input classes the loop of translate has gone through so far
Consumed ==
    IF di = 0 THEN <<>> ELSE Flat(dexs, di - 1) \o SubSeq(CurClasses, 1, ci - 1)

\* no class before s[j] has the display name of s[j]
IsFirst(s, j) ==
    LET n == UnicodeName(s[j]) IN \A i \in 1..(j - 1) : UnicodeName(s[i]) # n

\* the display names of the classes of s
NamesOf(s) == {UnicodeName(s[j]) : j \in DOMAIN s}

\* the index in s of the first class with display name n
FirstIndex(s, n) == CHOOSE j \in DOMAIN s : UnicodeName(s[j]) = n /\ IsFirst(s, j)

RECURSIVE FirstsFrom(_, _)
\* the classes among s[j], s[j+1], ... that are the first of s with their
\* display name, in order
FirstsFrom(s, j) ==
    IF j > Len(s) THEN <<>>
    ELSE IF IsFirst(s, j) THEN <<s[j]>> \o FirstsFrom(s, j + 1)
    ELSE FirstsFrom(s, j + 1)

\* the classes of s that are the first with their display name, in order
Firsts(s) == FirstsFrom(s, 1)

\* the positions of the printed lines of one kind
LinesOf(kind) == {i \in DOMAIN out : out[i].kind = kind}

\* the number of duplicate warnings printed for the display name n
WarningsFor(n) == Cardinality({i \in LinesOf("Warning") : out[i].name = n})

\* translate has returned to main
Translated == pc \in {"write", "jar", "report", "done"}

\* writeToJar has returned to main
Archived == pc \in {"report", "done"}

\* the names of the entries of the output file, in order
EntryNames == [i \in DOMAIN file.entries |-> file.entries[i].name]

(* ------------------------------ properties ----------------------------- *)

\* C8: at every point of translate's loop and at its return, no name is a key
\* of both classes and errors, ordkeys holds no name twice, and the names in
\* ordkeys are exactly the keys of classes (so len(ordkeys) = len(classes)):
\* a failed or dropped class has no ordkeys entry.
C8_MapsAndKeysConsistent ==
    LET cons == Consumed
    IN
        /\ DOMAIN classes \cap DOMAIN errors = {}
        /\ \A i, j \in DOMAIN ordkeys : ordkeys[i] = ordkeys[j] => i = j
        /\ {ordkeys[i] : i \in DOMAIN ordkeys} = DOMAIN classes
        /\ Len(ordkeys) = MapLen(classes)
        /\ \A j \in DOMAIN cons :
             (IsFirst(cons, j) /\ ToClassFile(cons[j]).err # Nil) =>
                \A i \in DOMAIN ordkeys : ordkeys[i] # UnicodeName(cons[j])

\* C8 witness: in the loop, with a success, a failure and a dropped duplicate
\* behind it.
C8_Witness ==
    /\ pc = "translate"
    /\ classes # EmptyMap
    /\ errors # EmptyMap
    /\ LinesOf("Warning") # {}

\* C9: the calls of jvm.ToClassFile are, in order, the first class of each
\* display name in input order and no other class; after every iteration the
\* number of classes consumed is len(classes) + len(errors) + the number of
\* duplicate warnings; every consumed class is in exactly one of the three
\* outcomes: the first class of a name is in classes or in errors and never in
\* both, and each later class of the name has its one warning.
C9_OneCallPerName ==
    LET cons == Consumed
        warned == LinesOf("Warning")
    IN
        /\ calls = Firsts(cons)
        /\ Len(cons) = MapLen(classes) + MapLen(errors) + Cardinality(warned)
        /\ DOMAIN classes \cup DOMAIN errors = NamesOf(cons)
        /\ \A n \in NamesOf(cons) :
             /\ (n \in DOMAIN classes) # (n \in DOMAIN errors)
             /\ Cardinality({i \in warned : out[i].name = n}) =
                   Cardinality({j \in DOMAIN cons : UnicodeName(cons[j]) = n}) - 1

\* C9 witness: translate has returned after three classes in two DEX inputs,
\* two of them with the same display name under different raw names.
C9_Witness ==
    /\ pc = "write"
    /\ Len(dexs) = 2
    /\ Len(Consumed) = 3
    /\ Len(calls) = 2
    /\ \E i, j \in DOMAIN Consumed :
         /\ i < j
         /\ Consumed[i].Name # Consumed[j].Name
         /\ UnicodeName(Consumed[i]) = UnicodeName(Consumed[j])

\* C1: when the class the loop stands at has a display name that an earlier
\* input class already has, the step prints a warning for that name and drops
\* the class: jvm.ToClassFile is not called, and classes, errors and ordkeys
\* stay as they are. No step of the run changes or removes an entry already
\* recorded in classes or in errors.
C1_DuplicateDropped ==
    [][ /\ (HasClass /\ UnicodeName(Cls) \in NamesOf(Consumed)) =>
              /\ out' = Append(out, Line("Warning", UnicodeName(Cls), <<>>, 0, 0))
              /\ calls' = calls
              /\ classes' = classes
              /\ errors' = errors
              /\ ordkeys' = ordkeys
        /\ \A n \in DOMAIN classes :
              n \in DOMAIN classes' /\ classes'[n] = classes[n]
        /\ \A n \in DOMAIN errors :
              n \in DOMAIN errors' /\ errors'[n] = errors[n]
      ]_vars

\* C1 witness: in the second DEX input a class was dropped whose display name
\* a differently encoded class of the first input had taken; the recorded
\* class data is that of the first.
C1_Witness ==
    /\ di = 2
    /\ \E j, k \in DOMAIN Consumed :
         /\ j <= Len(dexs[1])
         /\ k > Len(dexs[1])
         /\ IsFirst(Consumed, j)
         /\ UnicodeName(Consumed[j]) = UnicodeName(Consumed[k])
         /\ Consumed[j].Name # Consumed[k].Name
         /\ Consumed[j].valid
         /\ Consumed[k].valid
         /\ classes[UnicodeName(Consumed[j])] = ToClassFile(Consumed[j]).class_data
         /\ WarningsFor(UnicodeName(Consumed[k])) = 1

\* C2: every error jvm.ToClassFile returned is recorded in errors under the
\* display name of its class, and errors holds nothing else; a recorded
\* failure does not end the loop while input classes remain; when translate
\* has returned, every class of every DEX input has been processed and the
\* failures stand next to the successful classes.
C2_FailureDoesNotAbort ==
    LET cons == Consumed
        inp == Input
    IN
        /\ \A i \in DOMAIN calls :
             ToClassFile(calls[i]).err # Nil =>
                /\ UnicodeName(calls[i]) \in DOMAIN errors
                /\ errors[UnicodeName(calls[i])] = ToClassFile(calls[i]).err
        /\ DOMAIN errors =
             {UnicodeName(calls[i]) : i \in {x \in DOMAIN calls : ToClassFile(calls[x]).err # Nil}}
        /\ (errors # EmptyMap /\ Len(cons) < Len(inp)) => pc = "translate"
        /\ Translated =>
             /\ cons = inp
             /\ \A i \in DOMAIN calls :
                  ToClassFile(calls[i]).err = Nil =>
                     /\ UnicodeName(calls[i]) \in DOMAIN classes
                     /\ classes[UnicodeName(calls[i])] = ToClassFile(calls[i]).class_data

\* C2 witness: translate has returned; the very first class failed, and
\* classes after it in the same DEX input and in the next were translated.
C2_Witness ==
    /\ pc = "write"
    /\ Len(dexs) = 2
    /\ Len(dexs[1]) = 2
    /\ Len(dexs[2]) = 1
    /\ ~Input[1].valid
    /\ UnicodeName(Input[1]) \in DOMAIN errors
    /\ UnicodeName(Input[2]) \in DOMAIN classes
    /\ UnicodeName(Input[3]) \in DOMAIN classes

\* the positions in s of the classes whose translation fails
Failing(s) == {j \in DOMAIN s : ToClassFile(s[j]).err # Nil}

\* no two classes of s have the same display name
DistinctNames(s) ==
    \A i, j \in DOMAIN s :
       UnicodeName(s[i]) = UnicodeName(s[j]) => i = j

\* the summary line reports n successes and m failures
SummaryIs(n, m) ==
    /\ out # <<>>
    /\ out[Len(out)] = Line("summary", <<>>, <<>>, n, m)

\* C3 as stated: for a batch of N input classes of which exactly one fails
\* translation, translate returns N-1 classes and 1 error, and main's summary
\* reports these counts.
C3_AsStated ==
    LET inp == Input
    IN
        (Translated /\ Cardinality(Failing(inp)) = 1) =>
           /\ MapLen(classes) = Len(inp) - 1
           /\ MapLen(errors) = 1
           /\ pc = "done" => SummaryIs(Len(inp) - 1, 1)

\* C3 amended: for a batch of N input classes with pairwise distinct display
\* names of which exactly one fails translation, translate returns N-1
\* classes and 1 error, and main's summary reports these counts.
C3_OneFailureAmongDistinct ==
    LET inp == Input
    IN
        (Translated /\ DistinctNames(inp) /\ Cardinality(Failing(inp)) = 1) =>
           /\ MapLen(classes) = Len(inp) - 1
           /\ MapLen(errors) = 1
           /\ pc = "done" => SummaryIs(Len(inp) - 1, 1)

\* C3 witness: the run is over for three classes with distinct display names
\* in two DEX inputs, the second of which failed.
C3_Witness ==
    /\ pc = "done"
    /\ Len(dexs) = 2
    /\ Len(Input) = 3
    /\ DistinctNames(Input)
    /\ Failing(Input) = {2}
    /\ SummaryIs(2, 1)

\* C4: ordkeys lists the display names of the successfully translated classes
\* in the order their classes were first met in the input (DEX input order,
\* then class order within an input), and writeToJar creates the entries of
\* the archive in exactly that order, one entry for each name, holding the
\* class data recorded for it.
C4_FirstSeenOrder ==
    LET cons == Consumed
    IN
        /\ {ordkeys[i] : i \in DOMAIN ordkeys} =
             {UnicodeName(calls[i]) : i \in {x \in DOMAIN calls : ToClassFile(calls[x]).err = Nil}}
        /\ \A i, j \in DOMAIN ordkeys :
             i < j => FirstIndex(cons, ordkeys[i]) < FirstIndex(cons, ordkeys[j])
        /\ pc = "jar" => EntryNames = SubSeq(ordkeys, 1, wi - 1)
        /\ Archived =>
             /\ EntryNames = ordkeys
             /\ \A i, j \in DOMAIN file.entries :
                  file.entries[i].name = file.entries[j].name => i = j
        /\ (pc = "jar" \/ Archived) =>
             \A i \in DOMAIN file.entries :
                file.entries[i].data = classes[file.entries[i].name]

\* C4 witness: the archive is written with two entries from two DEX inputs,
\* a failed class standing between them in the input.
C4_Witness ==
    /\ pc = "report"
    /\ Len(dexs) = 2
    /\ Len(dexs[1]) = 2
    /\ Len(file.entries) = 2
    /\ Input[1].valid
    /\ ~Input[2].valid
    /\ Input[3].valid
    /\ EntryNames = <<UnicodeName(Input[1]), UnicodeName(Input[3])>>

\* C5 as stated: of two input classes with the same display name the later
\* is dropped with a warning, the first is in the output archive, and the run
\* goes on through the remaining classes.
C5_AsStated ==
    LET cons == Consumed
        inp == Input
    IN
        Archived =>
           /\ cons = inp
           /\ \A j, k \in DOMAIN inp :
                (j < k /\ IsFirst(inp, j)
                       /\ UnicodeName(inp[j]) = UnicodeName(inp[k])) =>
                   /\ WarningsFor(UnicodeName(inp[k])) >= 1
                   /\ \E e \in DOMAIN file.entries :
                        file.entries[e] =
                           Entry(UnicodeName(inp[j]), ToClassFile(inp[j]).class_data)

\* C5 amended: of two input classes with the same display name the later is
\* dropped with a warning and the run goes on through the remaining classes;
\* the first is in the output archive, with its own class data and as the
\* only entry of that name, when its translation succeeded; when it failed,
\* its failure is in errors and the archive has no entry of that name.
C5_FirstKept ==
    LET cons == Consumed
        inp == Input
    IN
        /\ Translated => cons = inp
        /\ Archived =>
             \A j, k \in DOMAIN inp :
                (j < k /\ IsFirst(inp, j)
                       /\ UnicodeName(inp[j]) = UnicodeName(inp[k])) =>
                   LET n == UnicodeName(inp[j])
                       es == {e \in DOMAIN file.entries : file.entries[e].name = n}
                   IN  /\ WarningsFor(n) >= 1
                       /\ ToClassFile(inp[j]).err = Nil =>
                            /\ Cardinality(es) = 1
                            /\ \A e \in es :
                                 file.entries[e].data = ToClassFile(inp[j]).class_data
                       /\ ToClassFile(inp[j]).err # Nil =>
                            /\ es = {}
                            /\ n \in DOMAIN errors
                            /\ errors[n] = ToClassFile(inp[j]).err

\* C5 witness: the archive is written; the second class was dropped for the
\* name of the first, which is encoded differently, and a third class after
\* it was translated.
C5_Witness ==
    /\ pc = "done"
    /\ Len(Input) = 3
    /\ UnicodeName(Input[1]) = UnicodeName(Input[2])
    /\ Input[1].Name # Input[2].Name
    /\ Input[1].valid
    /\ Input[2].valid
    /\ Input[3].valid
    /\ file.entries =
         << Entry(UnicodeName(Input[1]), ToClassFile(Input[1]).class_data),
            Entry(UnicodeName(Input[3]), ToClassFile(Input[3]).class_data) >>
    /\ WarningsFor(UnicodeName(Input[1])) = 1

\* the output file holds the archive of every successful translation
ArchiveComplete ==
    /\ file.exists
    /\ ~file.old
    /\ Len(file.entries) = MapLen(classes)
    /\ \A i \in DOMAIN calls :
         ToClassFile(calls[i]).err = Nil =>
            \E e \in DOMAIN file.entries :
               file.entries[e] =
                  Entry(UnicodeName(calls[i]), ToClassFile(calls[i]).class_data)

\* C6: once writeToJar has returned, every successfully translated class is
\* in the output archive, whatever number of classes failed; a diagnostic
\* line or the summary is printed only with the archive complete and after
\* the line that tells the output was written; the summary comes after the
\* diagnostics, one for each failure with its reason, and gives len(classes)
\* and len(errors).
C6_ArchiveThenReport ==
    /\ Archived => ArchiveComplete
    /\ \A i \in LinesOf("error") \cup LinesOf("summary") :
         /\ ArchiveComplete
         /\ \E w \in LinesOf("written") : w < i
    /\ \A i \in LinesOf("error") :
         /\ out[i].name \in DOMAIN errors
         /\ out[i].reason = errors[out[i].name]
         /\ \A s \in LinesOf("summary") : i < s
    /\ \A i, j \in LinesOf("error") : out[i].name = out[j].name => i = j
    /\ pc = "done" <=> LinesOf("summary") # {}
    /\ pc = "done" =>
         /\ SummaryIs(MapLen(classes), MapLen(errors))
         /\ Cardinality(LinesOf("summary")) = 1
         /\ {out[i].name : i \in LinesOf("error")} = DOMAIN errors

\* C6 witness: the run is over with one class in the archive and two failures
\* reported before the summary.
C6_Witness ==
    /\ pc = "done"
    /\ Len(file.entries) = 1
    /\ MapLen(errors) = 2
    /\ Cardinality(LinesOf("error")) = 2
    /\ SummaryIs(1, 2)

\* C7: while the output file that existed before the run is there and -f was
\* not passed, no step changes the file or translates a class, and the step
\* that opens the output prints the error and returns; main never gets past
\* opening the output. A step changes the old file only when -f was passed.
C7_NoOverwriteWithoutForce ==
    /\ []((file.exists /\ file.old /\ ~pforce) =>
            /\ pc \in {"start", "open", "returned", "panicked"}
            /\ calls = <<>>
            /\ classes = EmptyMap
            /\ errors = EmptyMap)
    /\ [][ /\ (file.exists /\ file.old /\ ~pforce) =>
                /\ file' = file
                /\ calls' = calls
                /\ pc = "open" =>
                     /\ pc' = "returned"
                     /\ out' = Append(out, Line("exists", <<>>, <<>>, 0, 0))
           /\ (file.exists /\ file.old /\ file' # file) => pforce
         ]_vars

\* C7 witness: main has returned with the error printed; the input had
\* classes, the old output file is as it was, nothing was translated.
C7_Witness ==
    /\ pc = "returned"
    /\ ~pforce
    /\ file = OldFile
    /\ Len(Input) >= 2
    /\ calls = <<>>
    /\ out = << Line("exists", <<>>, <<>>, 0, 0) >>

====
